---- MODULE Spec2Model ----
(***************************************************************************)
(* Credential resolution of the Google Workspace MCP servers.              *)
(*                                                                         *)
(* Two implementations of the same fallback chain exist in the source:     *)
(*   - get_credentials / create_service in mcp_google_shared/auth.py       *)
(*     (impl = "shared"), and                                              *)
(*   - the lifespan of each of the six servers (calendar, docs, drive,     *)
(*     gmail, meet, sheets), which are line-for-line copies of each other. *)
(* One run of the model is one resolution: the environment (configuration  *)
(* variable, files on disk, clock) is drawn in Init, and each action is    *)
(* one step of the code, with the outcome of every external call (refresh, *)
(* browser flow, file write, client construction) drawn inside the action. *)
(* Time is counted in whole seconds.                                       *)
(*                                                                         *)
(* ServerSpec continues a server process past its startup: the lifespan    *)
(* yields the context, tool calls are accepted and executed against it,    *)
(* and a shutdown runs the lifespan's teardown and ends the process. The   *)
(* two test servers (basic_fastmcp_server.py, fast_sheets_server.py) have  *)
(* a lifespan that authenticates nothing and tools that compute locally.   *)
(* Every server offers the tools it registers; the operation a tool        *)
(* forwards to makes, reads, changes or removes items of the external API. *)
(* SessionSpec follows the calls of one session with the sheets or drive   *)
(* server or a test server, BasicSpec those of the basic test server, and  *)
(* ClientSpec the session of test_basic_client.py, whose requests are sent *)
(* one at a time.                                                          *)
(***************************************************************************)
EXTENDS Integers, Sequences, FiniteSets, TLC

VARIABLES
    impl,        \* which implementation runs: "shared" or a server name
    scopes,      \* the requested scope set (argument / module SCOPES)
    api,         \* create_service's (api_name, api_version); servers ignore it
    cfg,         \* CREDENTIALS_CONFIG: "unset", "good" or "bad"
    saFile,      \* file at SERVICE_ACCOUNT_PATH: "absent", "good" or "bad"
    secrets,     \* file at CREDENTIALS_PATH: "absent", "good" or "bad"
    tokenFile,   \* file at TOKEN_PATH
    tokenFile0,  \* history: the token file before resolution started
    clock,       \* utcnow()
    creds,       \* the local variable creds
    ret,         \* get_credentials' return value (shared implementation)
    pc,          \* position in the code
    ops,         \* history: external operations performed, in order
    handles,     \* the service handles built (context / return value)
    folder_id,   \* DRIVE_FOLDER_ID
    context,     \* the lifespan context the tools read
    constructed, \* history: number of contexts constructed
    calls,       \* the tool calls of this process, by arrival order
    world,       \* the external API's state: the items made, changed and removed
    shutdown,    \* what made the server leave its serving loop
    teardowns    \* history: number of times the lifespan's finally block ran

vars == <<impl, scopes, api, cfg, saFile, secrets, tokenFile, tokenFile0,
          clock, creds, ret, pc, ops, handles,
          folder_id, context, constructed, calls, world, shutdown, teardowns>>

\* the state of the serving phase
Proc == <<context, constructed, calls, world, shutdown, teardowns>>

(* ------------------------------ bounds -------------------------------- *)

\* the clock and the stored expiries range over 1..MaxClock
MaxClock == 2
\* a refreshed or newly issued token lives 1..MaxLifetime seconds
MaxLifetime == 2
\* tool calls a server process receives before it shuts down
MaxCalls == 2

(* ---------------------------- vocabulary ------------------------------ *)

Lifespans == {"calendar", "docs", "drive", "gmail", "meet", "sheets"}
Impls == {"shared"} \cup Lifespans

\* the two self-contained test servers
TestServers == {"basic", "fast_sheets"}
Servers == Lifespans \cup TestServers

NoToken == "none"
NoExpiry == 0 - 1

\* module-level SCOPES of each server
SCOPES(i) ==
    CASE i = "calendar" -> {"calendar"}
      [] i = "docs"     -> {"documents", "drive"}
      [] i = "drive"    -> {"drive"}
      [] i = "gmail"    -> {"gmail.modify", "gmail.readonly", "gmail.send", "gmail.compose"}
      [] i = "meet"     -> {"calendar"}
      [] i = "sheets"   -> {"spreadsheets", "drive"}
      [] i = "fast_sheets" -> {"spreadsheets", "drive"}
      [] i = "basic"    -> {}

\* the services each lifespan builds: <<api_name, api_version>>
ServerApis(i) ==
    CASE i = "calendar" -> {<<"calendar", "v3">>}
      [] i = "docs"     -> {<<"docs", "v1">>, <<"drive", "v3">>}
      [] i = "drive"    -> {<<"drive", "v3">>}
      [] i = "gmail"    -> {<<"gmail", "v1">>}
      [] i = "meet"     -> {<<"calendar", "v3">>}
      [] i = "sheets"   -> {<<"sheets", "v4">>, <<"drive", "v3">>}

\* arguments create_service is called with
ScopeArgs == {{"drive"}, {"spreadsheets", "drive"}}
ApiArgs == {<<"drive", "v3">>, <<"sheets", "v4">>}

\* a scope set that covers none of the requests
NarrowScopes == {"openid"}

(* ---------------------------- credentials ----------------------------- *)

\* creds = None
NoCreds ==
    [kind |-> "none", token |-> NoToken, refresh_token |-> NoToken,
     expiry |-> NoExpiry, scopes |-> {}]

\* service_account.Credentials.from_service_account_info(
\*     json.loads(base64.b64decode(CREDENTIALS_CONFIG)), scopes)
\* for a set CREDENTIALS_CONFIG c, NoCreds standing for a raised exception.
\* A malformed value raises while it is decoded. A well-formed one raises
\* TypeError: the library's from_service_account_info(info, **kwargs) takes
\* one positional argument and the call passes the scopes as a second one.
FromServiceAccountInfo(c, s) == NoCreds

\* service_account.Credentials.from_service_account_file(path, scopes=scopes)
FromServiceAccountFile(s) ==
    [kind |-> "sa_file", token |-> NoToken, refresh_token |-> NoToken,
     expiry |-> NoExpiry, scopes |-> s]

\* Credentials.from_authorized_user_info(info, scopes): the scopes passed by the
\* caller are the credential's scopes (the "scopes" key of the file is used only
\* when the caller passes none); a file without expiry loads as already expired.
FromAuthorizedUserInfo(info, s, now) ==
    [kind |-> "user", token |-> info.token, refresh_token |-> info.refresh_token,
     expiry |-> IF info.expiry = NoExpiry THEN now ELSE info.expiry,
     scopes |-> s]

\* variant: the serialised credential leaves the refresh token out
ToJson_DropsRefreshToken(c) ==
    [state |-> "json", token |-> c.token, refresh_token |-> NoToken,
     expiry |-> c.expiry, scopes |-> c.scopes]

\* creds.to_json()
ToJson(c) ==
    [state |-> "json", token |-> c.token, refresh_token |-> c.refresh_token,
     expiry |-> c.expiry, scopes |-> c.scopes]

AbsentFile ==
    [state |-> "absent", token |-> NoToken, refresh_token |-> NoToken,
     expiry |-> NoExpiry, scopes |-> {}]

\* a token file that json.load or from_authorized_user_info rejects
GarbageFile ==
    [state |-> "garbage", token |-> NoToken, refresh_token |-> NoToken,
     expiry |-> NoExpiry, scopes |-> {}]

\* variant: the None test is lost and every value counts as a credential
Truthy_Always(c) == TRUE

\* `if creds` / `not creds`
Truthy(c) == c.kind # "none"

\* creds.expired
Expired(c, now) == c.expiry # NoExpiry /\ now >= c.expiry

\* variant: the expiry test of valid is inverted
Valid_Inverted(c, now) == c.token # NoToken /\ Expired(c, now)

\* creds.valid
Valid(c, now) == c.token # NoToken /\ ~Expired(c, now)

\* creds.refresh(Request()) succeeding: a new access token and expiry, the
\* refresh token is kept
Refreshed(c, now, life) ==
    [c EXCEPT !.token = "t_refreshed", !.expiry = now + life]

\* flow.run_local_server(port=0) succeeding
FlowCredentials(s, now, life) ==
    [kind |-> "user", token |-> "t_flow", refresh_token |-> "r_flow",
     expiry |-> now + life, scopes |-> s]

\* build(api_name, api_version, credentials=creds)
Handle(a, c) == [api |-> a[1], version |-> a[2], credentials |-> c]

TokenFiles(s) ==
    {AbsentFile, GarbageFile} \cup
    [state : {"json"}, token : {NoToken, "t_stored"},
     refresh_token : {NoToken, "r_stored"},
     expiry : {NoExpiry} \cup (1..MaxClock),
     scopes : {s, NarrowScopes}]

(* -------------------------- serving vocabulary ------------------------ *)

\* values of DRIVE_FOLDER_ID: os.environ.get("DRIVE_FOLDER_ID") is None when
\* unset; fast_sheets_server.py defaults it to ""; only docs, sheets and
\* fast_sheets read it
FolderIds(i) ==
    CASE i \in {"docs", "sheets"} -> {"none", "folder"}
      [] i = "fast_sheets"        -> {"", "folder"}
      [] OTHER                    -> {"none"}

\* no context has been yielded
NoContext == [built |-> FALSE, services |-> {}, folder_id |-> "none"]

\* the dataclass instance a lifespan yields
ContextOf(hs, f) == [built |-> TRUE, services |-> hs, folder_id |-> f]

\* the value a tool call returns, or the error it raises
\* (rev: the revision of the item a forwarded operation answered with;
\* sheets: what the answered resource holds under 'sheets')
NoResult == [kind |-> "none", text |-> "", num |-> 0, rev |-> 0, sheets |-> "none"]
Ok(t, n) == [kind |-> "ok", text |-> t, num |-> n, rev |-> 0, sheets |-> "none"]
OkAt(t, n, r, sh) == [kind |-> "ok", text |-> t, num |-> n, rev |-> r, sheets |-> sh]
Raised(t, n) == [kind |-> "error", text |-> t, num |-> n, rev |-> 0, sheets |-> "none"]

\* the identifiers the external API may issue: one per call of the longest
\* session
Items == 1..(MaxCalls + 1)

\* the external API's state: for every identifier, whether its item was never
\* made ("none"), is there ("live") or was removed ("gone"), and how many
\* times it was changed. A spreadsheet resource lists its sheets under
\* 'sheets': every entry with its properties ("titled"), one entry without
\* 'properties' ("untitled"), or no 'sheets' key at all ("absent"); the other
\* items have no such part ("none")
NoItem == [state |-> "none", rev |-> 0, sheets |-> "none"]
NewItem(sh) == [state |-> "live", rev |-> 0, sheets |-> sh]
NoWorld == [id \in Items |-> NoItem]

\* an empty slot of calls
NoCall ==
    [status |-> "none", tool |-> "", arg |-> 0, arg2 |-> 0, invoked |-> 0,
     seen |-> NoWorld, fault |-> FALSE, made |-> "none", via |-> "none", raw |-> NoResult,
     result |-> NoResult]

(* ------------------------------- Init --------------------------------- *)

Init ==
    /\ impl \in Impls
    /\ scopes \in (IF impl = "shared" THEN ScopeArgs ELSE {SCOPES(impl)})
    /\ api \in (IF impl = "shared" THEN ApiArgs ELSE {<<"", "">>})
    /\ cfg \in {"unset", "good", "bad"}
    /\ saFile \in {"absent", "good", "bad"}
    /\ secrets \in {"absent", "good", "bad"}
    /\ tokenFile \in TokenFiles(scopes)
    /\ tokenFile0 = tokenFile
    /\ clock \in 1..MaxClock
    /\ creds = NoCreds
    /\ ret = NoCreds
    /\ pc = "inline"
    /\ ops = <<>>
    /\ handles = {}
    /\ folder_id \in FolderIds(impl)
    /\ context = NoContext
    /\ constructed = 0
    /\ calls = [k \in 1..MaxCalls |-> NoCall]
    /\ world = NoWorld
    /\ shutdown = "none"
    /\ teardowns = 0

Env == <<impl, scopes, api, cfg, saFile, secrets, tokenFile0, clock, folder_id>>

(* ------------------------ per-implementation facts -------------------- *)

\* the inline strategy is wrapped in try/except (auth.py 44-50); the lifespans
\* call from_service_account_info bare
CatchesConfigError(i) == i = "shared"

\* a successful inline strategy returns at once (auth.py 48); the lifespans
\* only assign creds and go on to the service-account-file test
ReturnsAfterConfig(i) == i = "shared"

\* variant: only get_credentials guards the service-account-file load
CatchesServiceAccountError_SharedOnly(i) == i = "shared"

\* the service-account-file strategy is wrapped in try/except everywhere
CatchesServiceAccountError(i) == TRUE

\* variant: the token file is loaded outside any try/except
CatchesTokenLoadError_Nowhere(i) == FALSE

\* loading the token file is wrapped in try/except (auth.py 64-69); the
\* lifespans open and parse it bare
CatchesTokenLoadError(i) == i = "shared"

\* refresh and interactive flow run inside try/except (auth.py 72, 94-96)
CatchesAuthError(i) == i = "shared"

\* variant: the token-file write has no try/except of its own
CatchesSaveError_Nowhere(i) == FALSE

\* the token-file write has its own try/except (auth.py 88-93)
CatchesSaveError(i) == i = "shared"

\* os.path.exists(CREDENTIALS_PATH) is tested before the flow (auth.py 79-81)
ChecksSecretsExist(i) == i = "shared"

\* variant: the token is saved whatever strategy produced the credential
Resolved_ViaSave(i) == "save"

\* where control goes once resolution has a credential to use
Resolved(i) == IF i = "shared" THEN "returned" ELSE "build"

\* where control goes when resolution gives up: get_credentials returns None,
\* a lifespan lets the exception escape
GaveUp(i) == IF CatchesAuthError(i) THEN "returned" ELSE "crashed"

\* creds after the service-account file failed to load: the lifespans' except
\* handler sets `creds = None`, the one in get_credentials only logs
CredsAfterServiceAccountError(i, c) == IF i = "shared" THEN c ELSE NoCreds

\* the lifespans enter the OAuth block only `if not creds`
AfterServiceAccount(i, c) ==
    IF i # "shared" /\ Truthy(c) THEN "build" ELSE "token"

\* variant: any stored credential that is not valid is refreshed when it has
\* a refresh token, expired or not
Decide_RefreshesInvalid(c, now) ==
    IF Truthy(c) /\ Valid(c, now) THEN "use"
    ELSE IF Truthy(c) /\ c.refresh_token # NoToken THEN "refresh"
    ELSE "interactive"

\* variant: a stored credential is used without looking at its validity
Decide_TrustsStored(c, now) == IF Truthy(c) THEN "use" ELSE "interactive"

\* lines 73-77 of auth.py and the same test in every lifespan
Decide(c, now) ==
    IF Truthy(c) /\ Valid(c, now) THEN "use"
    ELSE IF Truthy(c) /\ Expired(c, now) /\ c.refresh_token # NoToken THEN "refresh"
    ELSE "interactive"

\* variant: the flow is started whether or not the client-secrets file is there
SecretsLoad_Unchecked(s) == s # "bad"

\* InstalledAppFlow.from_client_secrets_file succeeds on a well-formed file
SecretsLoad(s) == s = "good"

\* variant: a failed write leaves the file as it was
Written_NeverTruncates(f, c, outcome) == IF outcome = "ok" THEN ToJson(c) ELSE f

\* variant: the credential is never written back
Written_Skipped(f, c, outcome) == IF outcome = "write_error" THEN GarbageFile ELSE f

\* the file after `with open(TOKEN_PATH, "w") as tf: tf.write(creds.to_json())`:
\* open fails (file untouched), write fails after the truncating open, or ok
Written(f, c, outcome) ==
    CASE outcome = "ok" -> ToJson(c)
      [] outcome = "open_error" -> f
      [] outcome = "write_error" -> GarbageFile

(* ------------------------------ actions ------------------------------- *)

\* strategy 1: CREDENTIALS_CONFIG
DecodeConfig ==
    /\ pc = "inline"
    /\ UNCHANGED Proc
    /\ UNCHANGED <<Env, tokenFile, handles>>
    /\ IF cfg = "unset"
       THEN /\ pc' = "sa"
            /\ UNCHANGED <<creds, ret, ops>>
       ELSE LET made == FromServiceAccountInfo(cfg, scopes)
            IN IF Truthy(made)
               THEN /\ creds' = made
                    /\ ops' = Append(ops, "decode_config")
                    /\ IF ReturnsAfterConfig(impl)
                       THEN pc' = "returned" /\ ret' = creds'
                       ELSE pc' = "sa" /\ UNCHANGED ret
               ELSE /\ ops' = ops \o <<"decode_config", "config_error">>
                    /\ pc' = IF CatchesConfigError(impl) THEN "sa" ELSE "crashed"
                    /\ UNCHANGED <<creds, ret>>

\* strategy 2: the file at SERVICE_ACCOUNT_PATH
LoadServiceAccountFile ==
    /\ pc = "sa"
    /\ UNCHANGED Proc
    /\ UNCHANGED <<Env, tokenFile, handles>>
    /\ CASE saFile = "absent" ->
              /\ pc' = AfterServiceAccount(impl, creds)
              /\ UNCHANGED <<creds, ret, ops>>
         [] saFile = "good" ->
              /\ creds' = FromServiceAccountFile(scopes)
              /\ ops' = Append(ops, "load_sa_file")
              /\ pc' = Resolved(impl)
              /\ ret' = IF impl = "shared" THEN creds' ELSE ret
         [] saFile = "bad" ->
              /\ ops' = ops \o <<"load_sa_file", "sa_error">>
              /\ IF CatchesServiceAccountError(impl)
                 THEN /\ creds' = CredsAfterServiceAccountError(impl, creds)
                      /\ pc' = AfterServiceAccount(impl, creds')
                 ELSE /\ pc' = "crashed"
                      /\ UNCHANGED creds
              /\ UNCHANGED ret

\* strategy 3: the stored user token at TOKEN_PATH
LoadToken ==
    /\ pc = "token"
    /\ UNCHANGED Proc
    /\ UNCHANGED <<Env, tokenFile, handles, ret>>
    /\ CASE tokenFile.state = "absent" ->
              /\ pc' = "check"
              /\ UNCHANGED <<creds, ops>>
         [] tokenFile.state = "garbage" ->
              /\ ops' = ops \o <<"read_token", "token_error">>
              /\ pc' = IF CatchesTokenLoadError(impl) THEN "check" ELSE "crashed"
              /\ UNCHANGED creds
         [] tokenFile.state = "json" ->
              /\ ops' = Append(ops, "read_token")
              /\ creds' = FromAuthorizedUserInfo(tokenFile, scopes, clock)
              /\ pc' = "check"

\* `if not creds or not creds.valid` and the choice between refresh and flow
CheckCreds ==
    /\ pc = "check"
    /\ UNCHANGED Proc
    /\ UNCHANGED <<Env, tokenFile, handles, creds, ops>>
    /\ CASE Decide(creds, clock) = "use" ->
              /\ pc' = Resolved(impl)
              /\ ret' = IF impl = "shared" THEN creds ELSE ret
         [] Decide(creds, clock) = "refresh" ->
              /\ pc' = "refresh"
              /\ UNCHANGED ret
         [] Decide(creds, clock) = "interactive" ->
              /\ pc' = "interactive"
              /\ UNCHANGED ret

\* creds.refresh(Request())
Refresh ==
    /\ pc = "refresh"
    /\ UNCHANGED Proc
    /\ UNCHANGED <<Env, tokenFile, handles, ret>>
    /\ \E ok \in BOOLEAN, life \in 1..MaxLifetime :
         IF ok
         THEN /\ creds' = Refreshed(creds, clock, life)
              /\ ops' = Append(ops, "refresh")
              /\ pc' = "save"
         ELSE /\ pc' = GaveUp(impl)
              /\ ops' = ops \o <<"refresh", "refresh_error">>
              /\ UNCHANGED creds

\* strategy 4: the interactive flow
Interactive ==
    /\ pc = "interactive"
    /\ UNCHANGED Proc
    /\ UNCHANGED <<Env, tokenFile, handles, ret>>
    /\ IF ChecksSecretsExist(impl) /\ secrets = "absent"
       THEN /\ pc' = GaveUp(impl)
            /\ ops' = Append(ops, "secrets_missing")
            /\ UNCHANGED creds
       ELSE IF ~SecretsLoad(secrets)
       THEN /\ pc' = GaveUp(impl)
            /\ ops' = ops \o <<"load_client_secrets", "secrets_error">>
            /\ UNCHANGED creds
       ELSE \E ok \in BOOLEAN, life \in 1..MaxLifetime :
                 IF ok
                 THEN /\ creds' = FlowCredentials(scopes, clock, life)
                      /\ ops' = ops \o <<"load_client_secrets", "run_local_server">>
                      /\ pc' = "save"
                 ELSE /\ pc' = GaveUp(impl)
                      /\ ops' = ops \o <<"load_client_secrets", "run_local_server",
                                         "flow_error">>
                      /\ UNCHANGED creds

\* saving the credentials for the next run
SaveToken ==
    /\ pc = "save"
    /\ UNCHANGED Proc
    /\ UNCHANGED <<Env, handles, creds>>
    /\ \E outcome \in {"ok", "open_error", "write_error"} :
         /\ tokenFile' = Written(tokenFile, creds, outcome)
         /\ ops' = IF outcome = "ok" THEN Append(ops, "write_token")
                   ELSE ops \o <<"write_token", outcome>>
         /\ IF outcome = "ok" \/ CatchesSaveError(impl)
            THEN /\ pc' = Resolved(impl)
                 /\ ret' = IF impl = "shared" THEN creds ELSE ret
            ELSE /\ pc' = GaveUp(impl)
                 /\ UNCHANGED ret

\* create_service, after get_credentials has returned
CreateService ==
    /\ pc = "returned"
    /\ UNCHANGED Proc
    /\ UNCHANGED <<Env, tokenFile, creds, ret>>
    /\ pc' = "done"
    /\ IF ~Truthy(ret)
       THEN UNCHANGED <<handles, ops>>
       ELSE \E ok \in BOOLEAN :
                 IF ok
                 THEN /\ handles' = {Handle(api, ret)}
                      /\ ops' = Append(ops, "build")
                 ELSE /\ ops' = ops \o <<"build", "build_error">>
                      /\ UNCHANGED handles

\* a lifespan building its service(s) and yielding the context
BuildContext ==
    /\ pc = "build"
    /\ UNCHANGED <<Env, tokenFile, creds, ret, calls, world, shutdown, teardowns>>
    /\ \E ok \in BOOLEAN :
         IF ok
         THEN /\ handles' = {Handle(a, creds) : a \in ServerApis(impl)}
              /\ ops' = Append(ops, "build")
              /\ context' = ContextOf(handles', folder_id)
              /\ constructed' = constructed + 1
              /\ pc' = "serving"
         ELSE /\ pc' = "crashed"
              /\ ops' = ops \o <<"build", "build_error">>
              /\ UNCHANGED <<handles, context, constructed>>

Next ==
    \/ DecodeConfig
    \/ LoadServiceAccountFile
    \/ LoadToken
    \/ CheckCreds
    \/ Refresh
    \/ Interactive
    \/ SaveToken
    \/ CreateService
    \/ BuildContext

Spec == Init /\ [][Next]_vars

(* ========================== the serving phase ========================= *)

\* the tools each server registers with @mcp.tool()
Tools(i) ==
    CASE i = "calendar" ->
           {"calendar_create", "calendar_get", "calendar_update",
            "calendar_delete", "calendar_list", "calendar_share",
            "event_create", "event_get", "event_update", "event_delete",
            "event_list", "event_quick_add", "event_move", "event_import",
            "calendar_free_busy"}
      [] i = "docs" ->
           {"docs_create", "docs_get", "docs_list", "docs_get_content",
            "docs_insert_text", "docs_replace_text", "docs_format_text",
            "docs_append_paragraph", "docs_batch_update", "docs_share"}
      [] i = "drive" ->
           {"search_files", "create_folder", "upload_file", "move_file",
            "rename_file", "delete_file", "get_file_content", "share_file",
            "get_file_metadata"}
      [] i = "gmail" ->
           {"gmail_get_message", "gmail_list_messages", "gmail_send_message",
            "gmail_reply", "gmail_forward", "gmail_get_attachment",
            "gmail_list_labels", "gmail_create_label", "gmail_update_label",
            "gmail_delete_label", "gmail_get_thread", "gmail_list_threads",
            "gmail_batch_modify", "gmail_batch_delete"}
      [] i = "meet" ->
           {"meet_create", "meet_get", "meet_update", "meet_delete",
            "meet_list", "meet_add_attendee", "meet_remove_attendee",
            "meet_update_attendee_status", "meet_get_join_info", "meet_share"}
      [] i = "sheets" ->
           {"list_sheets", "create_spreadsheet", "get_spreadsheet",
            "list_spreadsheets", "get_values", "update_values",
            "append_values", "clear_values", "add_sheet", "delete_sheet",
            "rename_sheet", "share_spreadsheet"}
      [] i = "fast_sheets" -> {"create_spreadsheet", "get_spreadsheet"}
      [] i = "basic"       -> {"echo", "add"}

\* what the operation a tool forwards to does to the external state:
\*   "create" makes a new item, "copy" makes a new item from an existing one,
\*   "read" answers with an item, "list" answers with the items there are,
\*   "update" changes an item, "delete" removes it.
\* An operation on a part of an item (an event of a calendar, a sheet or a
\* range of a spreadsheet, an attendee of a meeting) changes or reads that
\* item. echo and add compute their result from their arguments ("compute").
Kind(t) ==
    CASE t \in {"calendar_create", "docs_create", "create_folder",
                "upload_file", "gmail_send_message", "gmail_create_label",
                "meet_create", "create_spreadsheet"} -> "create"
      [] t \in {"gmail_reply", "gmail_forward"} -> "copy"
      [] t \in {"calendar_get", "event_get", "event_list", "docs_get",
                "docs_get_content", "get_file_content", "get_file_metadata",
                "gmail_get_message", "gmail_get_attachment",
                "gmail_get_thread", "meet_get", "meet_get_join_info",
                "list_sheets", "get_spreadsheet", "get_values"} -> "read"
      [] t \in {"calendar_list", "calendar_free_busy", "docs_list",
                "search_files", "gmail_list_messages", "gmail_list_labels",
                "gmail_list_threads", "meet_list", "list_spreadsheets"} -> "list"
      [] t \in {"calendar_delete", "delete_file", "gmail_delete_label",
                "gmail_batch_delete", "meet_delete"} -> "delete"
      [] t \in {"echo", "add"} -> "compute"
      [] OTHER -> "update"

\* the tools that leave the external state as it is
ReadOnly(t) == Kind(t) \in {"read", "list", "compute"}

\* identifiers, titles, messages and numbers a caller may pass
ItemIds == 1..MaxCalls

\* first argument of a call; the title of a forwarded create and the query
\* of a forwarded list do not influence the result
Args(i, t) ==
    IF i \in Lifespans /\ Kind(t) \in {"create", "list"} THEN {1} ELSE ItemIds

\* second argument: the b of add(a, b); for meet_share, whether the rule
\* dictionary holds the key "meeting_id" (1) or not (0)
Args2(t) ==
    CASE t = "add"        -> ItemIds
      [] t = "meet_share" -> {0, 1}
      [] OTHER            -> {0}

\* whether the call expression of tool t can be bound to its operation:
\* meet_share calls _share_meet_impl(meeting_id=meeting_id, **rule), so a
\* rule holding the key "meeting_id" gives the keyword twice and raises
\* TypeError before the operation is entered
Binds(t, b) == ~(t = "meet_share" /\ b = 1)

Live(a, w) == a \in Items /\ w[a].state = "live"

\* the number of identifiers issued so far, and of items there are
Made(w) == Cardinality({id \in Items : w[id].state # "none"})
LiveCount(w) == Cardinality({id \in Items : w[id].state = "live"})

\* the changes made to the items 1..n that are there
RECURSIVE RevSum(_, _)
RevSum(w, n) ==
    IF n = 0 THEN 0
    ELSE (IF Live(n, w) THEN w[n].rev ELSE 0) + RevSum(w, n - 1)

\* the shapes the resource made by a create may have
Shapes(i, t) ==
    IF i = "sheets" /\ Kind(t) = "create"
    THEN {"titled", "untitled", "absent"}
    ELSE {"none"}

\* the forwarded operation (services.<product>.app.*, and the API call of
\* list_sheets): what the external API answers in state w; fault is a
\* failure of the API call, made the shape of the item a create makes
Forward(t, a, w, fault, made) ==
    IF fault THEN Raised("api_error", 0)
    ELSE CASE Kind(t) = "create" -> OkAt(t, Made(w) + 1, 0, made)
           [] Kind(t) = "list"   ->
                OkAt(t, LiveCount(w), RevSum(w, MaxCalls + 1), "none")
           [] OTHER ->
                IF ~Live(a, w) THEN Raised("not_found", a)
                ELSE CASE Kind(t) = "copy"   -> OkAt(t, Made(w) + 1, 0, made)
                       [] Kind(t) = "update" ->
                            OkAt(t, a, w[a].rev + 1, w[a].sheets)
                       [] OTHER -> OkAt(t, a, w[a].rev, w[a].sheets)

\* whether a request had its effect on the external state: one that is
\* answered had; one whose API call fails may have failed before or after
Effects(fault) == IF fault THEN BOOLEAN ELSE {TRUE}

\* the external state after the forwarded operation: answer is what the API
\* makes of the request in state w, took whether the request had its effect
WorldAfter(t, a, w, answer, took) ==
    IF answer.kind # "ok" \/ ~took THEN w
    ELSE CASE Kind(t) \in {"create", "copy"} ->
                [w EXCEPT ![answer.num] = NewItem(answer.sheets)]
           [] Kind(t) = "update" -> [w EXCEPT ![a].rev = @ + 1]
           [] Kind(t) = "delete" -> [w EXCEPT ![a].state = "gone"]
           [] OTHER -> w

\* the message a message argument stands for
MessageText(a) ==
    CASE a = 1 -> "Hello, FastMCP!"
      [] a = 2 -> ""
      [] OTHER -> "Echo: again"

\* the number a numeric argument stands for
NumberOf(a) ==
    CASE a = 1 -> 5
      [] a = 2 -> 3
      [] OTHER -> 0 - a

\* variant: echo hands the message back without its prefix
Local_EchoBare(i, t, a, b) ==
    CASE t = "echo"               -> Ok(MessageText(a), 0)
      [] t = "add"                -> Ok("", NumberOf(a) + NumberOf(b))
      [] t = "create_spreadsheet" -> Ok("1234567890abcdefgh", a)
      [] t = "get_spreadsheet"    -> Ok("Test Spreadsheet", a)

\* variant: add hands back its first argument
Local_AddFirst(i, t, a, b) ==
    CASE t = "echo"               -> Ok("Echo: " \o MessageText(a), 0)
      [] t = "add"                -> Ok("", NumberOf(a))
      [] t = "create_spreadsheet" -> Ok("1234567890abcdefgh", a)
      [] t = "get_spreadsheet"    -> Ok("Test Spreadsheet", a)

\* the tools of the test servers, which compute their result themselves
Local(i, t, a, b) ==
    CASE t = "echo"               -> Ok("Echo: " \o MessageText(a), 0)
      [] t = "add"                -> Ok("", NumberOf(a) + NumberOf(b))
      [] t = "create_spreadsheet" -> Ok("1234567890abcdefgh", a)
      [] t = "get_spreadsheet"    -> Ok("Test Spreadsheet", a)

InSeq(x, sq) == \E n \in DOMAIN sq : sq[n] = x

\* where the handle a tool call reaches the external API through comes from:
\* list_sheets reads sheets_service from the lifespan context; every other
\* tool function of the servers passes neither ctx nor a handle to its
\* `_impl`, which therefore uses one of its own; the test servers' tools
\* reach no API
HandleSource(i, t) ==
    IF i \in TestServers THEN "none"
    ELSE IF i = "sheets" /\ t = "list_sheets" THEN "context"
    ELSE "forwarded"

\* the credential steps of a tool call before the external API is reached.
\* list_sheets uses the handle of the context and the test servers reach no
\* API, so none; a forwarded operation is handed neither the context nor a
\* handle and resolves credentials for itself unless an earlier call of the
\* process has done so (done: the steps taken so far)
BeforeForward(i, t, done) ==
    IF HandleSource(i, t) = "forwarded" /\ ~InSeq("resolve_credentials", done)
    THEN <<"resolve_credentials">>
    ELSE <<>>

\* list_sheets' return value for the spreadsheet resource the API answered
\* with: [s['properties']['title'] for s in spreadsheet.get('sheets', [])],
\* a new list of the titles (none when there is no 'sheets' key), with no
\* identifier in it; an entry without 'properties' raises KeyError
SheetTitles(answer) ==
    IF answer.sheets = "untitled" THEN Raised("KeyError", 0)
    ELSE [answer EXCEPT !.text = "sheet_titles", !.num = 0]

\* what the body of tool t makes of the outcome of its operation: list_sheets
\* builds the list of titles from an answer and lets an exception pass; every
\* other tool is `return _impl(...)`
Returned(t, outcome) ==
    IF t = "list_sheets" /\ outcome.kind = "ok"
    THEN SheetTitles(outcome)
    ELSE outcome

\* variant: once another call has failed, every call reports that failure
ToolReturn_Poisoned(t, outcome, others) ==
    IF \E c \in others : c.status = "finished" /\ c.result.kind = "error"
    THEN Raised("poisoned", 0)
    ELSE Returned(t, outcome)

\* variant: the returned value carries a count of the calls answered so far
ToolReturn_Counted(t, outcome, others) ==
    [Returned(t, outcome) EXCEPT
        !.num = @ + Cardinality({c \in others : c.status = "finished"})]

\* what tool t hands back for the outcome of its operation, whatever the
\* other calls did
ToolReturn(t, outcome, others) == Returned(t, outcome)

\* how many times a tool function invokes its forwarded operation: its body
\* is one call expression with no loop and no handler, entered once when the
\* call can be bound and not at all when it cannot
Attempts(t, b) == IF Binds(t, b) THEN 1 ELSE 0

\* variant: a tool call rewrites the context's folder
ContextAfterCall_SetsFolder(ctx, t) == [ctx EXCEPT !.folder_id = "changed"]

\* the context after a tool call: the tools only read it
ContextAfterCall(ctx, t) == ctx

\* the lifespan wraps its yield in try/finally
HasFinally(i) == TRUE

\* the calls other than call k
Others(k) == {calls[j] : j \in (DOMAIN calls) \ {k}}

\* the lifespan of a test server: no authentication, the context is yielded
YieldContext ==
    /\ pc = "lifespan"
    /\ UNCHANGED <<Env, tokenFile, creds, ret, ops, handles,
                   calls, world, shutdown, teardowns>>
    /\ context' = ContextOf({}, IF impl = "fast_sheets" THEN folder_id ELSE "none")
    /\ constructed' = constructed + 1
    /\ pc' = "serving"

\* a request arrives and its tool function is entered
AcceptCall ==
    /\ pc = "serving"
    /\ UNCHANGED <<Env, tokenFile, creds, ret, ops, handles, pc,
                   context, constructed, world, shutdown, teardowns>>
    /\ \E k \in DOMAIN calls :
         /\ calls[k].status = "none"
         /\ \A j \in 1..(k - 1) : calls[j].status # "none"
         /\ \E t \in Tools(impl) : \E a \in Args(impl, t), b \in Args2(t) :
              calls' = [calls EXCEPT ![k] =
                           [NoCall EXCEPT !.status = "running", !.tool = t,
                                          !.arg = a, !.arg2 = b]]

\* the tool function runs: it forwards to the external operation (servers) or
\* computes its result (test servers) and returns
ExecuteCall ==
    /\ pc = "serving"
    /\ UNCHANGED <<Env, tokenFile, creds, ret, handles, pc,
                   constructed, shutdown, teardowns>>
    /\ \E k \in DOMAIN calls :
         /\ calls[k].status = "running"
         /\ context' = ContextAfterCall(context, calls[k].tool)
         /\ LET c == calls[k]
            IN IF impl \in TestServers
               THEN   LET out == Local(impl, c.tool, c.arg, c.arg2)
                      IN /\ calls' = [calls EXCEPT ![k] =
                               [c EXCEPT !.status = "finished",
                                         !.seen = world, !.raw = out,
                                         !.result =
                                            ToolReturn(c.tool, out, Others(k))]]
                         /\ UNCHANGED <<ops, world>>
               ELSE IF ~Binds(c.tool, c.arg2)
               THEN   /\ calls' = [calls EXCEPT ![k] =
                            [c EXCEPT !.status = "finished",
                                      !.invoked = Attempts(c.tool, c.arg2),
                                      !.seen = world,
                                      !.result =
                                         ToolReturn(c.tool,
                                                    Raised("TypeError", 0),
                                                    Others(k))]]
                      /\ UNCHANGED <<ops, world>>
               ELSE   \E fault \in BOOLEAN :
                      \E took \in Effects(fault) :
                      \E made \in Shapes(impl, c.tool) :
                        LET answer == Forward(c.tool, c.arg, world, FALSE, made)
                            out == Forward(c.tool, c.arg, world, fault, made)
                        IN /\ ops' = ops \o BeforeForward(impl, c.tool, ops)
                           /\ calls' = [calls EXCEPT ![k] =
                                 [c EXCEPT !.status = "finished",
                                           !.invoked =
                                              Attempts(c.tool, c.arg2),
                                           !.seen = world, !.fault = fault,
                                           !.made = made,
                                           !.via = HandleSource(impl, c.tool),
                                           !.raw = out,
                                           !.result =
                                              ToolReturn(c.tool, out,
                                                         Others(k))]]
                           /\ world' = WorldAfter(c.tool, c.arg, world,
                                                  answer, took)

\* the ways the serving loop is ended: the transport is closed, the user
\* interrupts (SIGINT), an error escapes while serving, or the process is
\* terminated by its parent (proc.terminate(), SIGTERM)
Triggers == {"closed", "keyboard_interrupt", "error", "terminate"}

\* the transport a server runs on: mcp.run() defaults to stdio
Transport(i) == IF i = "fast_sheets" THEN "sse" ELSE "stdio"

\* whether the trigger unwinds the Python stack: an end of mcp.run() or an
\* exception does. No code of the servers installs a handler for SIGTERM, so
\* under stdio it ends the process where it stands; under sse the HTTP
\* server of the transport library may turn it into an orderly exit
Unwinds(i, trigger) ==
    IF trigger # "terminate" THEN {TRUE}
    ELSE IF Transport(i) = "sse" THEN BOOLEAN
    ELSE {FALSE}

\* the serving loop ends
Shutdown ==
    /\ pc = "serving"
    /\ UNCHANGED <<Env, tokenFile, creds, ret, ops, handles,
                   context, constructed, calls, world, teardowns>>
    /\ \E trigger \in Triggers : \E u \in Unwinds(impl, trigger) :
         /\ shutdown' = trigger
         /\ pc' = IF u THEN "teardown" ELSE "killed"

\* the lifespan generator is resumed (or the exception is thrown into it) at
\* its yield, and what follows the yield runs
Teardown ==
    /\ pc = "teardown"
    /\ UNCHANGED <<Env, tokenFile, creds, ret, ops, handles,
                   context, constructed, calls, world, shutdown>>
    /\ teardowns' = IF HasFinally(impl) \/ shutdown = "closed"
                    THEN teardowns + 1 ELSE teardowns
    /\ pc' = "exited"

\* mcp.run() has returned or raised; __main__ logs and the process ends
MainExit ==
    /\ pc = "exited"
    /\ UNCHANGED <<Env, tokenFile, creds, ret, ops, handles, Proc>>
    /\ pc' = "stopped"

\* the environments a server process is started in
ServerEnvs ==
    {<<c, sa, tf, sec>> \in
        {<<"unset", "good", "absent", "absent">>,
         <<"unset", "absent", "valid", "absent">>,
         <<"unset", "absent", "expired", "good">>,
         <<"unset", "absent", "absent", "good">>,
         <<"unset", "absent", "absent", "absent">>,
         <<"good", "absent", "absent", "absent">>} : TRUE}

\* the token file of a server environment, seen at clock 1
ServerTokenFile(tf, s) ==
    CASE tf = "absent"  -> AbsentFile
      [] tf = "valid"   -> [state |-> "json", token |-> "t_stored",
                            refresh_token |-> "r_stored", expiry |-> 1 + 1,
                            scopes |-> s]
      [] tf = "expired" -> [state |-> "json", token |-> "t_stored",
                            refresh_token |-> "r_stored", expiry |-> 1,
                            scopes |-> s]

ServerInit ==
    /\ impl \in Impls \cup TestServers
    /\ scopes = (IF impl = "shared" THEN {"drive"} ELSE SCOPES(impl))
    /\ api = (IF impl = "shared" THEN <<"drive", "v3">> ELSE <<"", "">>)
    /\ \E e \in ServerEnvs :
         /\ impl \in TestServers => e = <<"unset", "absent", "absent", "absent">>
         /\ cfg = e[1]
         /\ saFile = e[2]
         /\ tokenFile = ServerTokenFile(e[3], scopes)
         /\ secrets = e[4]
    /\ tokenFile0 = tokenFile
    /\ clock = 1
    /\ creds = NoCreds
    /\ ret = NoCreds
    /\ pc = (IF impl \in TestServers THEN "lifespan" ELSE "inline")
    /\ ops = <<>>
    /\ handles = {}
    /\ folder_id \in FolderIds(impl)
    /\ context = NoContext
    /\ constructed = 0
    /\ calls = [k \in 1..MaxCalls |-> NoCall]
    /\ world = NoWorld
    /\ shutdown = "none"
    /\ teardowns = 0

ServerNext ==
    \/ Next
    \/ YieldContext
    \/ AcceptCall
    \/ ExecuteCall
    \/ Shutdown
    \/ Teardown
    \/ MainExit

ServerSpec == ServerInit /\ [][ServerNext]_vars

\* the six lifespans end alike (try: yield ... finally: pass), so one of them
\* stands for all next to the two test servers
(* ------------------------------ a session ----------------------------- *)

\* the calls of one session: one more than the servers are otherwise given,
\* so that a third call can fall between two equal ones
SessionCalls == MaxCalls + 1

\* a session with the sheets or drive server (authenticated from a
\* service-account file) or with one of the test servers
SessionInit ==
    /\ impl \in {"sheets", "drive", "fast_sheets", "basic"}
    /\ scopes = SCOPES(impl)
    /\ api = <<"", "">>
    /\ cfg = "unset"
    /\ saFile = (IF impl \in Lifespans THEN "good" ELSE "absent")
    /\ tokenFile = AbsentFile
    /\ secrets = "absent"
    /\ tokenFile0 = tokenFile
    /\ clock = 1
    /\ creds = NoCreds
    /\ ret = NoCreds
    /\ pc = (IF impl \in TestServers THEN "lifespan" ELSE "inline")
    /\ ops = <<>>
    /\ handles = {}
    /\ folder_id \in FolderIds(impl)
    /\ context = NoContext
    /\ constructed = 0
    /\ calls = [k \in 1..SessionCalls |-> NoCall]
    /\ world = NoWorld
    /\ shutdown = "none"
    /\ teardowns = 0

SessionNext ==
    \/ DecodeConfig
    \/ LoadServiceAccountFile
    \/ BuildContext
    \/ YieldContext
    \/ AcceptCall
    \/ ExecuteCall

SessionSpec == SessionInit /\ [][SessionNext]_vars

(* ----------------------- the test client's session --------------------- *)

\* send_request of the test client: a request is written only when every
\* earlier one has been answered, because the client reads the response line
\* before it returns
SendRequest ==
    /\ \A k \in DOMAIN calls : calls[k].status # "running"
    /\ AcceptCall

ClientInit ==
    /\ SessionInit
    /\ impl = "basic"

ClientNext ==
    \/ YieldContext
    \/ SendRequest
    \/ ExecuteCall

ClientSpec == ClientInit /\ [][ClientNext]_vars

\* a session with the basic test server whose requests may be in flight
\* together: a client that writes its requests without waiting for responses
BasicNext ==
    \/ YieldContext
    \/ AcceptCall
    \/ ExecuteCall

BasicSpec == ClientInit /\ [][BasicNext]_vars

TypeOK ==
    /\ impl \in Impls \cup TestServers
    /\ pc \in {"inline", "sa", "token", "check", "refresh", "interactive",
               "save", "returned", "done", "build", "serving", "crashed",
               "lifespan", "teardown", "exited", "stopped", "killed"}
    /\ creds.kind \in {"none", "inline", "sa_file", "user"}
    /\ tokenFile.state \in {"absent", "garbage", "json"}

(* ------------------------------ claims -------------------------------- *)

Has(op) == \E k \in DOMAIN ops : ops[k] = op
LastOp == IF ops = <<>> THEN "" ELSE ops[Len(ops)]

\* resolution is over: get_credentials has returned, or the lifespan has a
\* credential to build with, or it let an exception escape
Finished == pc \in {"returned", "done", "build", "serving", "crashed"}

\* the credential resolution ended with (none when it failed)
Outcome ==
    IF impl = "shared" THEN ret
    ELSE IF pc \in {"build", "serving"} \/ LastOp = "build_error" THEN creds
    ELSE NoCreds

\* the stored token as it is loaded for this request
Stored == FromAuthorizedUserInfo(tokenFile0, scopes, clock)

\* token, refresh token and expiry of credential c are those of file f
SameToken(c, f) ==
    /\ c.kind = "user"
    /\ c.token = f.token
    /\ c.refresh_token = f.refresh_token
    /\ c.expiry = f.expiry

\* the credential a well-formed CREDENTIALS_CONFIG describes
InlineCredentials(s) ==
    [kind |-> "inline", token |-> NoToken, refresh_token |-> NoToken,
     expiry |-> NoExpiry, scopes |-> s]

\* C1 (as claimed): in get_credentials, a well-formed CREDENTIALS_CONFIG makes
\* the call return the credential built from it, and nothing after the inline
\* strategy happens: no service-account file load, no token file read or
\* write, no refresh, no interactive flow.
C1_InlineWins ==
    (impl = "shared" /\ cfg = "good" /\ pc # "inline") =>
        /\ pc \in {"returned", "done"}
        /\ ret = InlineCredentials(scopes)
        /\ \A k \in DOMAIN ops : ops[k] \in {"decode_config", "build", "build_error"}
        /\ tokenFile = tokenFile0

\* C2 (as claimed): a server lifespan given a well-formed CREDENTIALS_CONFIG
\* has the inline strategy succeed, does not load the service-account file,
\* and every handle in the context is backed by the inline credential.
C2_LifespanInlineWins ==
    (impl \in Lifespans /\ cfg = "good" /\ pc # "inline") =>
        /\ ~Has("config_error")
        /\ ~Has("load_sa_file")
        /\ \A h \in handles : h.credentials.kind = "inline"

\* C3: with no inline input and no service-account file, a valid unexpired
\* stored token is returned unchanged: the token file is read and nothing else
\* happens before the client is built; the token file stays as it was.
C3_Pre ==
    /\ cfg = "unset" /\ saFile = "absent"
    /\ tokenFile0.state = "json"
    /\ tokenFile0.token # NoToken
    /\ tokenFile0.expiry > clock

C3_ValidTokenUnchanged ==
    (C3_Pre /\ pc \notin {"inline", "sa", "token"}) =>
        /\ \A k \in DOMAIN ops : ops[k] \in {"read_token", "build", "build_error"}
        /\ tokenFile = tokenFile0
        /\ pc \in {"check", "returned", "done", "build", "serving", "crashed"}
        /\ pc = "crashed" => LastOp = "build_error"
        /\ pc # "check" => SameToken(Outcome, tokenFile0)
        /\ \A h \in handles : SameToken(h.credentials, tokenFile0)

\* C3 witness: a handle was built on the stored token
C3_Witness ==
    /\ C3_Pre
    /\ pc \in {"done", "serving"}
    /\ handles # {}

\* C4 (as claimed): after a successful refresh of an expired stored token the
\* token file holds the refreshed credential, which is the one returned;
\* reloading the file yields it, with a future expiry and the old refresh token.
C4_RefreshPersisted ==
    (Has("refresh") /\ ~Has("refresh_error") /\ Finished) =>
        /\ tokenFile = ToJson(creds)
        /\ FromAuthorizedUserInfo(tokenFile, scopes, clock) = creds
        /\ Outcome = creds
        /\ creds.expiry > clock
        /\ creds.refresh_token = tokenFile0.refresh_token

\* C4 (amended): after a successful refresh the write of the token file is
\* attempted with the refreshed credential. When the write succeeds the file
\* holds the refreshed credential (reloading yields it, with a future expiry,
\* a new access token and the old refresh token) and resolution goes on with
\* it. When the write fails, get_credentials still returns the refreshed
\* credential and a lifespan aborts.
C4_RefreshPersistedIfWritten ==
    (Has("refresh") /\ ~Has("refresh_error") /\ Finished) =>
        /\ Has("write_token")
        /\ creds.expiry > clock
        /\ creds.token # tokenFile0.token
        /\ creds.refresh_token = tokenFile0.refresh_token
        /\ IF Has("open_error") \/ Has("write_error")
           THEN /\ tokenFile \in {tokenFile0, GarbageFile}
                /\ IF impl = "shared" THEN ret = creds ELSE pc = "crashed"
           ELSE /\ tokenFile = ToJson(creds)
                /\ FromAuthorizedUserInfo(tokenFile, scopes, clock) = creds
                /\ Outcome = creds

\* C4 witness: a refreshed credential was written and returned
C4_Witness ==
    /\ Has("refresh") /\ ~Has("refresh_error")
    /\ pc \in {"returned", "build"}
    /\ tokenFile = ToJson(creds)
    /\ tokenFile # tokenFile0
    /\ tokenFile0.refresh_token = "r_stored"

\* C5: with CREDENTIALS_CONFIG unset and no service-account file, no token
\* file and no client-secrets file, resolution fails (get_credentials returns
\* None, a lifespan never reaches handle construction) and writes nothing.
C5_Pre ==
    /\ cfg = "unset" /\ saFile = "absent"
    /\ tokenFile0.state = "absent" /\ secrets = "absent"

C5_NothingApplicable ==
    C5_Pre =>
        /\ tokenFile = AbsentFile
        /\ handles = {}
        /\ ~Has("write_token") /\ ~Has("build") /\ ~Has("run_local_server")
        /\ pc \in {"inline", "sa", "token", "check", "interactive",
                   "returned", "done", "crashed"}
        /\ Outcome = NoCreds
        /\ impl \in Lifespans => pc # "returned" /\ pc # "done"
        /\ impl = "shared" => pc # "crashed"

\* C5 witness: resolution has ended in failure
C5_Witness ==
    /\ C5_Pre
    /\ \/ impl = "shared" /\ pc = "done" /\ LastOp = "secrets_missing"
       \/ impl = "drive" /\ pc = "crashed" /\ LastOp = "secrets_error"

\* C6 (as claimed): when the refresh of an expired stored token fails while a
\* client-secrets file exists, the interactive strategy is attempted before
\* resolution fails.
C6_RefreshFailureFallsThrough ==
    (Has("refresh_error") /\ secrets = "good") => Has("run_local_server")

\* C7 (as claimed): a CREDENTIALS_CONFIG that cannot be decoded never fails
\* resolution; the next step is the service-account-file strategy.
C7_BadConfigFallsThrough ==
    [][(pc = "inline" /\ cfg = "bad") => pc' = "sa"]_vars

\* C8: a service-account file that fails to load does not fail resolution;
\* no credential is kept and the next step is the stored-user-token strategy.
C8_BadServiceAccountFallsThrough ==
    [][(pc = "sa" /\ saFile = "bad") =>
            /\ pc' = "token"
            /\ creds' = NoCreds
            /\ ops' = ops \o <<"load_sa_file", "sa_error">>
            /\ UNCHANGED <<tokenFile, ret, handles>>]_vars

\* C8 witness: after the failed load, resolution went on to the token file
\* and beyond
C8_Witness ==
    /\ Has("sa_error")
    /\ impl \in Lifespans
    /\ Has("read_token")
    /\ pc \in {"check", "refresh", "interactive"}

\* C9 (as claimed): when the service-account strategies yield nothing and no
\* usable stored token exists (file absent, unparsable, or expired without a
\* refresh token), resolution does not end before the interactive strategy
\* has been considered.
C9_Pre ==
    /\ cfg = "unset" /\ saFile \in {"absent", "bad"}
    /\ \/ tokenFile0.state \in {"absent", "garbage"}
       \/ /\ tokenFile0.state = "json"
          /\ Expired(Stored, clock)
          /\ tokenFile0.refresh_token = NoToken

C9_NoTokenReachesInteractive ==
    (C9_Pre /\ Finished) => Has("secrets_missing") \/ Has("load_client_secrets")

\* C10 (as claimed): a stored token is used as it is, without refresh or
\* re-authorization, only if it is unexpired and the scopes recorded in the
\* token file cover the requested scopes.
C10_StoredScopesChecked ==
    (/\ Finished /\ Outcome.kind = "user"
     /\ ~Has("refresh") /\ ~Has("load_client_secrets")) =>
        /\ tokenFile0.expiry > clock
        /\ scopes \subseteq tokenFile0.scopes

\* number of times operation op was performed
Count(op) == Cardinality({k \in DOMAIN ops : ops[k] = op})

\* the interactive flow ran and returned a credential
FlowSucceeded == Has("run_local_server") /\ ~Has("flow_error")

\* C11 (as claimed): after a successful interactive flow the token file holds
\* the new credential, which is the one resolution returns, and loading the
\* token file again yields that credential.
C11_FlowPersisted ==
    (FlowSucceeded /\ Finished) =>
        /\ tokenFile = ToJson(creds)
        /\ Outcome = creds
        /\ FromAuthorizedUserInfo(tokenFile, scopes, clock) = creds

\* C11 (amended): after a successful interactive flow the write of the token
\* file is attempted with the new credential. When the write succeeds the file
\* holds exactly that credential, whatever it held before, resolution goes on
\* with it, and loading the file again yields it as a valid credential. When
\* the write fails the file is left as it was or truncated; get_credentials
\* still returns the new credential and a lifespan aborts.
C11_FlowPersistedIfWritten ==
    (FlowSucceeded /\ Finished) =>
        /\ Count("write_token") = 1
        /\ creds.token = "t_flow" /\ creds.refresh_token = "r_flow"
        /\ IF Has("open_error") \/ Has("write_error")
           THEN /\ tokenFile \in {tokenFile0, GarbageFile}
                /\ IF impl = "shared" THEN ret = creds ELSE pc = "crashed"
           ELSE /\ tokenFile.state = "json"
                /\ SameToken(creds, tokenFile)
                /\ Outcome = creds
                /\ FromAuthorizedUserInfo(tokenFile, scopes, clock) = creds
                /\ Decide(FromAuthorizedUserInfo(tokenFile, scopes, clock), clock) = "use"

\* C11 witness: the flow's credential replaced a stored token and was returned
C11_Witness ==
    /\ FlowSucceeded
    /\ pc \in {"returned", "build"}
    /\ tokenFile0.state = "json"
    /\ tokenFile # tokenFile0
    /\ tokenFile.token = "t_flow"
    /\ Outcome = creds

\* C12: the token file changes only through the write that follows a refresh
\* or an interactive flow; when resolution ends with a service-account
\* credential (inline or file) no write was attempted and the file is as it
\* was. The configuration and the other files are never changed.
C12_OnlyTokenStrategiesWrite ==
    /\ tokenFile # tokenFile0 =>
          Has("write_token") /\ (Has("refresh") \/ FlowSucceeded)
    /\ Has("write_token") => creds.kind = "user"
    /\ (Finished /\ Outcome.kind \in {"inline", "sa_file"}) =>
          tokenFile = tokenFile0 /\ ~Has("write_token")

\* C12 witness: a lifespan serves with a service-account credential while a
\* refreshable stored token sits untouched in the token file
C12_Witness ==
    /\ pc = "serving"
    /\ Outcome.kind \in {"inline", "sa_file"}
    /\ Decide(Stored, clock) = "refresh"
    /\ tokenFile = tokenFile0

\* C13: create_service resolves once, and calls build only with the
\* credential resolution returned; a failed resolution ends the call with no
\* build and no service.
C13_BuildOnlyWithCredential ==
    impl = "shared" =>
        /\ \A op \in {"decode_config", "load_sa_file", "read_token", "refresh",
                      "run_local_server", "write_token", "build"} : Count(op) <= 1
        /\ Has("build") => pc = "done" /\ Truthy(ret)
        /\ (pc = "done" /\ ret = NoCreds) => handles = {} /\ ~Has("build")
        /\ \A h \in handles : h.credentials = ret /\ ret # NoCreds
        /\ (pc = "done" /\ ret # NoCreds) => Has("build")

\* C13 witness: resolution failed and create_service returned without building
C13_Witness ==
    /\ impl = "shared" /\ pc = "done"
    /\ ret = NoCreds
    /\ Has("refresh_error")
    /\ handles = {}

\* C14: every handle handed out is backed by a credential, and a user
\* credential behind a handle carries a token that is unexpired at the time
\* the handle is built: loaded valid, just refreshed, or just issued.
C14_HandlesBackedByValidCredential ==
    \A h \in handles :
        /\ Truthy(h.credentials)
        /\ ~Expired(h.credentials, clock)
        /\ h.credentials.kind = "user" =>
              /\ Valid(h.credentials, clock)
              /\ \/ (SameToken(h.credentials, tokenFile0) /\ tokenFile0.expiry > clock)
                 \/ Has("refresh")
                 \/ FlowSucceeded

\* C14 witness: a handle backed by a credential that was expired in the token
\* file and refreshed before the handle was built
C14_Witness ==
    /\ handles # {}
    /\ Has("refresh")
    /\ Expired(Stored, clock)
    /\ \A h \in handles : h.credentials.token = "t_refreshed"

\* the process has left its startup phase: the context was yielded
Started == pc \in {"serving", "teardown", "exited", "stopped", "killed"}

\* C15: credential resolution and token-file writes happen only during
\* startup: a tool call is accepted only once startup is over, and from then
\* on no step (tool call, shutdown, teardown, exit) adds a resolution step,
\* changes the resolved credential or changes the token file.
C15_ResolutionOnlyAtStartup ==
    /\ [](\A k \in 1..MaxCalls : calls[k].status # "none" => Started)
    /\ [][Started => /\ Started'
                     /\ ops' = ops
                     /\ creds' = creds
                     /\ tokenFile' = tokenFile]_vars

\* C16: a server process constructs its context exactly once, before any tool
\* call is accepted, and from then on the context (service handles and
\* folder_id) keeps its value through every tool call, shutdown and exit.
C16_ContextBuiltOnceAndFixed ==
    /\ [](/\ constructed <= 1
          /\ Started => (constructed = 1 /\ context.built)
          /\ \A k \in 1..MaxCalls : calls[k].status # "none" => context.built)
    /\ [][context.built => context' = context]_vars

\* the sheets server, started with a folder, has finished one call while
\* another is still in flight, and holds the context it yielded
C16_Witness ==
    /\ impl = "sheets"
    /\ pc = "serving"
    /\ constructed = 1
    /\ context = ContextOf(handles, "folder")
    /\ Cardinality(context.services) = 2
    /\ calls[1].status = "running"
    /\ calls[2].status = "finished"

\* the steps that end a resolution with no credential
AuthErrors == {"refresh_error", "secrets_missing", "secrets_error", "flow_error"}
AuthFailed == \E e \in AuthErrors : Has(e)

\* C17: a failure to resolve credentials never brings the process down: after
\* an authentication failure the process is still running and able to accept
\* calls.
C17_AuthFailureNotFatal == AuthFailed => pc # "crashed"

\* C18, in finite-run form: whatever ended the serving phase (the transport
\* closing, a keyboard interrupt, a termination signal or an uncaught
\* error), a process that has ended has run its lifespan's teardown step.
C18_EndedOnlyAfterTeardown ==
    pc \in {"stopped", "killed"} => teardowns = 1

\* calls j and k asked the same of the same external state and met the same
\* behaviour of the external API
SameQuestion(j, k) ==
    /\ j # k
    /\ calls[j].status = "finished"
    /\ calls[k].status = "finished"
    /\ calls[j].tool = calls[k].tool
    /\ calls[j].arg = calls[k].arg
    /\ calls[j].arg2 = calls[k].arg2
    /\ calls[j].seen = calls[k].seen
    /\ calls[j].fault = calls[k].fault
    /\ calls[j].made = calls[k].made

C20_ForwardedOnce ==
    \A k \in 1..MaxCalls :
        impl \in Lifespans =>
            /\ calls[k].invoked <= 1
            /\ calls[k].status = "finished" =>
                 /\ calls[k].invoked = 1
                 /\ calls[k].raw.kind = "error" =>
                        calls[k].result = calls[k].raw
                 /\ calls[k].fault => calls[k].result = Raised("api_error", 0)

\* C21: every tool call of a server that has reached the external API did so
\* through the handle held in the lifespan context.
C21_HandleFromContext ==
    \A k \in 1..MaxCalls :
        (impl \in Lifespans /\ calls[k].status = "finished")
            => calls[k].via = "context"

\* what a read-only call with argument a reads of the external state w: the
\* item it names, or all of them when it lists
ReadOf(t, a, w) ==
    CASE Kind(t) = "read" -> IF a \in Items THEN w[a] ELSE NoItem
      [] Kind(t) = "list" -> w
      [] OTHER            -> NoItem

\* calls j and k are the same read-only tool with the same arguments, both
\* answered, and what they read was not changed between them (an item that
\* was changed or removed never gets its earlier state back)
SameRead(j, k) ==
    /\ j # k
    /\ calls[j].status = "finished"
    /\ calls[k].status = "finished"
    /\ calls[j].tool = calls[k].tool
    /\ ReadOnly(calls[j].tool)
    /\ calls[j].arg = calls[k].arg
    /\ calls[j].arg2 = calls[k].arg2
    /\ ReadOf(calls[j].tool, calls[j].arg, calls[j].seen)
          = ReadOf(calls[k].tool, calls[k].arg, calls[k].seen)

EchoExpected(a) ==
    CASE a = 1 -> "Echo: Hello, FastMCP!"
      [] a = 2 -> "Echo: "
      [] OTHER -> "Echo: Echo: again"

\* C23: in the basic server every answered echo request carries as result the
\* string "Echo: " followed by its own message, whatever requests came before
\* or are in flight.
C23_EchoPrefixesMessage ==
    \A k \in DOMAIN calls :
        (impl = "basic" /\ calls[k].tool = "echo" /\ calls[k].status = "finished")
            => calls[k].result = Ok(EchoExpected(calls[k].arg), 0)

\* the basic server answered an add request and then two echo requests with
\* different messages
C23_Witness ==
    /\ impl = "basic"
    /\ calls[1].tool = "add"
    /\ calls[1].status = "finished"
    /\ calls[2].tool = "echo"
    /\ calls[2].arg = 2
    /\ calls[2].result.text = "Echo: "
    /\ calls[3].tool = "echo"
    /\ calls[3].arg = 1
    /\ calls[3].result.text = "Echo: Hello, FastMCP!"

\* C24: in the basic server every answered add request carries the sum of its
\* own two arguments (5 and 3 give 8), and with requests sent one after
\* another a request is answered before the next one is taken up, so the
\* responses come in the order the requests were sent.
C24_AddAnsweredInOrder ==
    \A k \in DOMAIN calls :
        /\ (calls[k].tool = "add" /\ calls[k].status = "finished")
              => /\ calls[k].result =
                        Ok("", NumberOf(calls[k].arg) + NumberOf(calls[k].arg2))
                 /\ (calls[k].arg = 1 /\ calls[k].arg2 = 2)
                        => calls[k].result.num = 8
        /\ (k > 1 /\ calls[k].status # "none")
              => calls[k - 1].status = "finished"

\* the client's echo request was answered, then its add request for 5 and 3
\* was answered with 8, and a third request is being handled
C24_Witness ==
    /\ impl = "basic"
    /\ calls[1].tool = "echo"
    /\ calls[1].status = "finished"
    /\ calls[2].tool = "add"
    /\ calls[2].arg = 1
    /\ calls[2].arg2 = 2
    /\ calls[2].result = Ok("", 8)
    /\ calls[3].status = "running"

\* C25: whenever get_credentials has returned None, the token file was not
\* written during the call and holds what it held before.
C25_FailureLeavesTokenFile ==
    (impl = "shared" /\ pc \in {"returned", "done"} /\ ret = NoCreds)
        => /\ ~Has("write_token")
           /\ tokenFile = tokenFile0

\* get_credentials returned None after the refresh of a stored token failed
C25_Witness ==
    /\ impl = "shared"
    /\ pc = "done"
    /\ ret = NoCreds
    /\ Has("refresh_error")
    /\ tokenFile0.state = "json"
    /\ tokenFile = tokenFile0

\* C26: get_credentials and create_service never let an exception out:
\* whatever fails, get_credentials ends by returning a credential or None,
\* and create_service by returning a service built on that credential or
\* None.
C26_SharedNeverRaises ==
    impl = "shared" =>
        /\ pc # "crashed"
        /\ pc \in {"returned", "done"} => (ret = NoCreds \/ Truthy(ret))
        /\ pc = "done" =>
             (handles = {} \/ (Truthy(ret) /\ handles = {Handle(api, ret)}))

\* create_service returned None after the configuration variable, the
\* service-account file and the token file all failed to load, the flow's
\* credential could not be saved and the client could not be constructed
C26_Witness ==
    /\ impl = "shared"
    /\ pc = "done"
    /\ Has("config_error")
    /\ Has("sa_error")
    /\ Has("token_error")
    /\ Has("write_error")
    /\ Has("build_error")
    /\ Truthy(ret)
    /\ handles = {}

\* the token-file write was attempted and failed
WriteFailed == Has("open_error") \/ Has("write_error")

\* C27 as stated: after a failed token-file write get_credentials still
\* returns the refreshed or newly issued credential and the token file has
\* the content it had; a lifespan aborts startup with no handle built.
C27_WriteFailureKeepsFile ==
    WriteFailed =>
        /\ impl = "shared" =>
              /\ pc \in {"returned", "done"}
              /\ ret = creds
              /\ Truthy(ret)
              /\ tokenFile = tokenFile0
        /\ impl \in Lifespans =>
              /\ pc = "crashed"
              /\ handles = {}
              /\ ~context.built

\* C27, amended: as above, except that the token file has the content it had
\* only when it could not be opened; when the failure comes after the
\* truncating open, the file is left without its content.
C27_WriteFailureKeepsOrTruncatesFile ==
    WriteFailed =>
        /\ impl = "shared" =>
              /\ pc \in {"returned", "done"}
              /\ ret = creds
              /\ Truthy(ret)
        /\ impl \in Lifespans =>
              /\ pc = "crashed"
              /\ handles = {}
              /\ ~context.built
        /\ Has("open_error") => tokenFile = tokenFile0
        /\ Has("write_error") => tokenFile = GarbageFile

\* get_credentials returned the refreshed credential although writing it
\* failed after the file had been opened, and the stored token is gone
C27_Witness ==
    /\ impl = "shared"
    /\ pc = "done"
    /\ Has("refresh")
    /\ Has("write_error")
    /\ Truthy(ret)
    /\ tokenFile0.state = "json"
    /\ tokenFile = GarbageFile

\* C28 (as claimed): a server lifespan given a well-formed CREDENTIALS_CONFIG
\* and a service-account file that fails to load builds the inline credential,
\* discards it when the file load fails, and goes on to the stored-token path.
C28_FailedFileDiscardsInline ==
    (impl \in Lifespans /\ cfg = "good" /\ saFile = "bad"
     /\ pc \notin {"inline", "sa"}) =>
        /\ Has("sa_error")
        /\ ~Has("config_error")
        /\ creds.kind # "inline"

\* C29 as stated, for its example: a token file with no access token and no
\* expiry is never refreshed, even when it carries a refresh token.
C29_NoTokenNoExpiryNotRefreshed ==
    (/\ tokenFile0.state = "json"
     /\ tokenFile0.token = NoToken
     /\ tokenFile0.expiry = NoExpiry
     /\ tokenFile0.refresh_token # NoToken)
        => ~Has("refresh")

\* C29, amended: a refresh is attempted only for a stored credential that, as
\* loaded, is expired and carries a refresh token; a loaded credential that
\* is neither valid nor expired goes to the interactive strategy without a
\* refresh; a resolution refreshes at most once and writes the token file at
\* most once.
C29_RefreshOnlyWhenExpired ==
    /\ [](Has("refresh") =>
            /\ tokenFile0.state = "json"
            /\ Expired(Stored, clock)
            /\ Stored.refresh_token # NoToken)
    /\ [](Count("refresh") <= 1 /\ Count("write_token") <= 1)
    /\ [][(pc = "check" /\ Truthy(creds) /\ ~Valid(creds, clock)
           /\ ~Expired(creds, clock))
              => (pc' = "interactive" /\ ops' = ops)]_vars

\* the token file held a refresh token and an expiry in the future but no
\* access token: no refresh was attempted, the browser flow ran and its
\* credential was written
C29_Witness ==
    /\ tokenFile0.state = "json"
    /\ tokenFile0.token = NoToken
    /\ tokenFile0.refresh_token # NoToken
    /\ tokenFile0.expiry > clock
    /\ ~Has("refresh")
    /\ Has("run_local_server")
    /\ Count("write_token") = 1
    /\ Finished

====
